---- MODULE Spec2Model ----
(***************************************************************************)
(* Access-control and brute-force-defence subsystem of the serverless     *)
(* file sharing system (lambda/accessControl.js, with the handlers of     *)
(* lambda/files.js that create the records it reads).                     *)
(*                                                                         *)
(* Every Lambda invocation is a process; the DynamoDB tables are the only  *)
(* shared state.  One step of a process is the stretch of code between two *)
(* awaits: the storage call that the await waits for together with the     *)
(* synchronous code that runs on its result.  A storage call may fail      *)
(* (the promise rejects); the code's catch blocks decide what that does.   *)
(*                                                                         *)
(* Time is counted in minutes.  Dates are stored as ISO strings in         *)
(* millisecond precision and parsed back with new Date(), which returns    *)
(* the instant that was formatted, so a stored date is modelled by the     *)
(* instant itself.                                                         *)
(***************************************************************************)
EXTENDS Integers, Sequences, FiniteSets, TLC

\* ------------------------------------------------------------------ bounds
\* the clock stops at MaxTime, at most MaxFaults storage calls fail, and
\* recordFailedAttempt is not entered on an item that counts MaxCount
MaxTime == 90
MaxFaults == 1
MaxCount == 6
\* at most MaxLogs items are written to the access-log table
MaxLogs == 1

\* the clock advances in steps of half an hour: a lock set at one instant is
\* in force at that instant and lapses exactly at the next
TickSteps == {30}

\* ------------------------------------------------------- program constants
MAX_LOGIN_ATTEMPTS == 5
\* 30 * 60 * 1000 ms, in minutes
LOCKOUT_DURATION == 30

\* ---------------------------------------------------------------- domains
Procs == {"p1", "p2"}
GroupIds == {"g1"}
IpA == <<192, 168, 1, 42>>
IpB == <<10, 0, 0, 1>>
IPs == {IpA, IpB}
\* "" is the empty (falsy) password
Passwords == {"", "Secret123!", "wrong"}
Salts == {"s1", "s2"}
PermId == "perm1"
OwnerId == "user1"

\* a missing item (result.Item undefined) and a null attribute
NULL == [isNull |-> TRUE]
NullDate == 0 - 1
NullSalt == "<null>"

\* in an address or a rule: a component that parseInt reads as NaN, and the
\* component '*'
NotANumber == 0 - 1
Star == 0 - 2

\* the addresses a request can come from: the two above, one that shares
\* sixteen bits with the first, one with the top bit set, one in 0.0.0.0/24,
\* and the placeholder 'unknown' the handler passes when it has no sourceIp
IpC == <<192, 168, 200, 9>>
IpD == <<200, 1, 1, 1>>
IpZ == <<0, 0, 0, 7>>
Unknown == <<NotANumber>>
Requesters == IPs \cup {IpC, IpD, IpZ, Unknown}

Pairs == GroupIds \X Requesters

\* attemptId = `${groupId}:${ipAddress}`
AttemptId(groupId, ip) == <<groupId, ip>>

\* --------------------------------------------------------- Password Hasher
\* crypto.pbkdf2Sync(password, salt, 10000, 64, 'sha512').toString('hex'):
\* a deterministic function of (password, salt), taken to be collision free
Pbkdf2(password, salt) == <<"pbkdf2", password, salt>>

hashPassword(password, salt) == [hash |-> Pbkdf2(password, salt), salt |-> salt]

\* a comparison of the salt alone
verifyPassword_SaltOnly(password, hash, salt) == hash # NULL /\ hash[3] = salt

verifyPassword(password, hash, salt) == hash = Pbkdf2(password, salt)

\* Buffer.from(password).toString('base64'): injective, and never a pbkdf2 digest
Base64(password) == <<"base64", password>>

createPasswordProtection(password, salt) ==
    IF password = ""
    THEN [isPasswordProtected |-> FALSE, passwordHash |-> NULL, passwordSalt |-> NullSalt]
    ELSE [isPasswordProtected |-> TRUE,
          passwordHash |-> hashPassword(password, salt).hash,
          passwordSalt |-> hashPassword(password, salt).salt]

\* -------------------------------------------------------------- IP Matcher
RECURSIVE Pow2(_)
Pow2(n) == IF n = 0 THEN 1 ELSE 2 * Pow2(n - 1)

\* ip2long: (((a*256 + b)*256 + c)*256 + d) >>> 0, an unsigned 32-bit value,
\* held as its high and low 16-bit halves
\* A component that parseInt cannot read (or a missing one) makes the sum NaN,
\* and NaN >>> 0 is 0
ip2long(ip) ==
    IF Len(ip) < 4 \/ \E i \in 1..4 : ip[i] < 0
    THEN [hi |-> 0, lo |-> 0]
    ELSE LET low == ip[3] * 256 + ip[4]
             high == ip[1] * 256 + ip[2] + (low \div 65536)
         IN  [hi |-> high % 65536, lo |-> low % 65536]

\* (x & mask) for a mask that clears the low `shift` bits, 0 <= shift < 32
Masked(x, shift) ==
    IF shift >= 16
    THEN [hi |-> (x.hi \div Pow2(shift - 16)) * Pow2(shift - 16), lo |-> 0]
    ELSE [hi |-> x.hi, lo |-> (x.lo \div Pow2(shift)) * Pow2(shift)]

\* mask = -1 << (32 - bits): JavaScript takes the shift count modulo 32, so
\* the mask clears the low (32 - bits) % 32 bits; with bits that parseInt
\* cannot read the count is NaN and the shift is by 0
isIpInCidr(ip, subnet, bits) ==
    LET shift == IF bits = NotANumber THEN 0 ELSE (32 - bits) % 32
    IN  Masked(ip2long(ip), shift) = Masked(ip2long(subnet), shift)

\* wildcard rule: '.' is escaped, '*' becomes '.*', anchored at the start;
\* on dotted quads with whole-octet wildcards the pattern matches octet by octet
WildcardMatch(ip, pattern) ==
    /\ Len(ip) = 4
    /\ Len(pattern) = 4
    /\ \A i \in 1..4 : pattern[i] = Star \/ pattern[i] = ip[i]

\* the callback of allowedIps.some(...) throws on the rule: new RegExp on a
\* wildcard rule whose pattern is not a regular expression
RuleThrows(rule) == rule.kind = "badregex"

\* the callback of allowedIps.some(...)
RuleMatches(rule, ip) ==
    CASE rule.kind = "exact" -> rule.addr = ip
      [] rule.kind = "cidr"  -> rule.addr = ip \/ isIpInCidr(ip, rule.addr, rule.bits)
      [] rule.kind = "wild"  -> WildcardMatch(ip, rule.addr)
      [] OTHER -> FALSE

\* allowedIps.some(...) throws: it reaches a rule that throws before a rule
\* that matches
EvaluationThrows(restriction, ip) ==
    /\ restriction # NULL
    /\ restriction.enabled
    /\ \E i \in 1..Len(restriction.allowedIps) :
          /\ RuleThrows(restriction.allowedIps[i])
          /\ \A j \in 1..(i - 1) : ~RuleMatches(restriction.allowedIps[j], ip)

\* variant: the rules of a disabled restriction are evaluated as well
IpAllowed_IgnoresEnabled(restriction, ip) ==
    IF restriction = NULL THEN TRUE
    ELSE IF Len(restriction.allowedIps) = 0 THEN TRUE
    ELSE \E i \in 1..Len(restriction.allowedIps) : RuleMatches(restriction.allowedIps[i], ip)

\* checkIpRestriction after both reads succeeded; its catch block answers
\* allowed when the evaluation throws
IpAllowed(restriction, ip) ==
    IF restriction = NULL \/ ~restriction.enabled THEN TRUE
    ELSE IF Len(restriction.allowedIps) = 0 THEN TRUE
    ELSE \/ EvaluationThrows(restriction, ip)
         \/ \E i \in 1..Len(restriction.allowedIps) : RuleMatches(restriction.allowedIps[i], ip)

\* ------------------------------------------------ rules an owner can store
CidrRule(addr, bits) == [kind |-> "cidr", addr |-> addr, bits |-> bits]
ExactRule(addr) == [kind |-> "exact", addr |-> addr, bits |-> NotANumber]
WildcardRule(pattern) == [kind |-> "wild", addr |-> pattern, bits |-> NotANumber]
\* '192.168.1.(*': the pattern built from it is not a regular expression
BadRegexRule == [kind |-> "badregex", addr |-> <<192, 168, 1, Star>>, bits |-> NotANumber]

\* '192.168.1.0/p' for every prefix length, an address, a wildcard
WellFormedRules ==
    {CidrRule(<<192, 168, 1, 0>>, bits) : bits \in 0..32}
    \cup {ExactRule(IpA), WildcardRule(<<192, 168, Star, Star>>)}

\* '192.168.1.0/33', '192.168.1.42/abc', 'abc.def.1.0/24', '10.0/16' and the
\* wildcard above
MalformedRules ==
    {CidrRule(<<192, 168, 1, 0>>, 33), CidrRule(IpA, NotANumber),
     CidrRule(<<NotANumber, NotANumber, 1, 0>>, 24), CidrRule(<<10, 0>>, 16),
     BadRegexRule}

\* the lists an update carries: empty, one rule, a rule twice, and the rule
\* that throws before and after a rule that matches
RuleLists ==
    {<<>>}
    \cup {<<r>> : r \in WellFormedRules \cup MalformedRules}
    \cup {<<r, r>> : r \in {ExactRule(IpA), CidrRule(<<192, 168, 1, 0>>, 24)}}
    \cup {<<BadRegexRule, ExactRule(IpA)>>, <<ExactRule(IpA), BadRegexRule>>}

\* ------------------------------------------------------------------- state
VARIABLES
    now,               \* the clock (new Date())
    fileGroups,        \* FILE_GROUPS_TABLE: groupId -> item
    accessPermissions, \* ACCESS_PERMISSIONS_TABLE: the item of PermId
    ipRestrictions,    \* IP_RESTRICTIONS_TABLE: the item of PermId
    accessAttempts,    \* ACCESS_ATTEMPTS_TABLE: attemptId -> item
    accessLogs,        \* ACCESS_LOGS_TABLE: the items written
    faults,            \* storage calls that have failed so far
    pc,                \* where each invocation of verifyFileAccess stands
    args,              \* its arguments (groupId, password, ipAddress)
    attempt,           \* verifyFileAccess: const attempt
    lockNow,           \* verifyFileAccess: const now of the lock check
    ipGroup,           \* checkIpRestriction: const group
    ipResult,          \* checkIpRestriction: ipResult.Item (const ipRestrictions)
    group,             \* verifyFileAccess: const group
    accessInfo,        \* verifyFileAccess: const accessInfo
    permNow,           \* verifyFileAccess: const now of the expiry check
    rfNow,             \* recordFailedAttempt: const now
    currentAttempt,    \* recordFailedAttempt: let currentAttempt
    caught,            \* the catch blocks that swallowed an error (console.error)
    result             \* the value returned, once pc = "done"

tables == <<fileGroups, accessPermissions, ipRestrictions, accessAttempts, accessLogs>>
locals == <<args, attempt, lockNow, ipGroup, ipResult, group, accessInfo, permNow, rfNow,
            currentAttempt, caught, result>>
vars == <<now, tables, faults, pc, locals>>

\* records the handlers of lambda/files.js put into the tables
GroupItem(protected, expirationDate) ==
    [groupId |-> "g1", userId |-> OwnerId, expirationDate |-> expirationDate,
     isPasswordProtected |-> protected, accessPermissionId |-> PermId]

PermissionItem(hash, salt, expirationDate) ==
    [permissionId |-> PermId, groupId |-> "g1", passwordHash |-> hash,
     passwordSalt |-> salt, expirationDate |-> expirationDate]

RestrictionItem(enabled, allowedIps) ==
    [permissionId |-> PermId, enabled |-> enabled, allowedIps |-> allowedIps]


\* ------------------------------------------------------------------- Init
\* A share expires an hour into the run, so that the clock approaches,
\* meets and passes the expiry
InitialExpiration == {60}

\* The tables as handleCreateFileGroup leaves them (all its puts done, or
\* the put of the permission item failed), with a permission item written
\* by the earlier base64 format, and with or without an IP restriction
InitialShares ==
    {[g |-> NULL, perm |-> NULL]}
    \cup {[g |-> GroupItem(FALSE, e), perm |-> PermissionItem(NULL, NullSalt, e)] :
            e \in InitialExpiration}
    \cup {[g |-> GroupItem(TRUE, e), perm |-> pm] :
            e \in InitialExpiration,
            pm \in {NULL} \cup {PermissionItem(createPasswordProtection("Secret123!", "s1").passwordHash,
                                               createPasswordProtection("Secret123!", "s1").passwordSalt, ex) :
                                  ex \in InitialExpiration}
                          \cup {PermissionItem(Base64("Secret123!"), NullSalt, ex) : ex \in InitialExpiration}}

InitialRestrictions ==
    {NULL, RestrictionItem(TRUE, <<[kind |-> "cidr", addr |-> <<192, 168, 1, 0>>, bits |-> 24]>>)}

\* An unprotected share may carry an attempt item: handleCreateFileGroup
\* puts the group item under the groupId of the request, so a share created
\* with a password, tried twice with a wrong one, and created again without
\* a password keeps the item of the two failures
InitialAttempts(g) ==
    {[k \in Pairs |-> NULL]}
    \cup (IF g # NULL /\ ~g.isPasswordProtected
          THEN {[k \in Pairs |-> IF k = AttemptId("g1", IpA)
                                 THEN [attemptCount |-> 2, lastAttempt |-> 0,
                                       isLocked |-> FALSE, lockExpiry |-> NullDate]
                                 ELSE NULL]}
          ELSE {})

NoResult == [pending |-> TRUE]

\* the state after the shares were created and the owner stored one of
\* the given restriction items, or none
InitWith(restrictions) ==
    /\ now = 0
    /\ \E sh \in InitialShares :
          /\ fileGroups = [gid \in GroupIds |-> sh.g]
          /\ accessPermissions = sh.perm
          /\ ipRestrictions \in (IF sh.g = NULL THEN {NULL} ELSE restrictions)
          /\ accessAttempts \in InitialAttempts(sh.g)
    /\ accessLogs = {}
    /\ faults = 0
    /\ pc = [p \in Procs |-> "idle"]
    /\ args = [p \in Procs |-> NULL]
    /\ attempt = [p \in Procs |-> NULL]
    /\ lockNow = [p \in Procs |-> NullDate]
    /\ ipGroup = [p \in Procs |-> NULL]
    /\ ipResult = [p \in Procs |-> NULL]
    /\ group = [p \in Procs |-> NULL]
    /\ accessInfo = [p \in Procs |-> NULL]
    /\ permNow = [p \in Procs |-> NullDate]
    /\ rfNow = [p \in Procs |-> NullDate]
    /\ currentAttempt = [p \in Procs |-> NULL]
    /\ caught = [p \in Procs |-> {}]
    /\ result = [p \in Procs |-> NoResult]

Init == InitWith(InitialRestrictions)

\* ------------------------------------------------------------ the clock
Tick ==
    /\ \E d \in TickSteps : now + d <= MaxTime /\ now' = now + d
    /\ UNCHANGED <<tables, faults, pc, locals>>

\* ---------------------------------------------------- verifyFileAccess
InFlight(p) == pc[p] \notin {"idle", "done", "error"}

Key(p) == AttemptId(args[p].groupId, args[p].ipAddress)

\* a new invocation: handleVerifyFileAccess calls verifyFileAccess
Begin(p, groupId, password, ipAddress) ==
    /\ ~InFlight(p)
    /\ pc' = [pc EXCEPT ![p] = "getAttempt"]
    /\ args' = [args EXCEPT ![p] = [groupId |-> groupId, password |-> password,
                                    ipAddress |-> ipAddress]]
    /\ attempt' = [attempt EXCEPT ![p] = NULL]
    /\ lockNow' = [lockNow EXCEPT ![p] = NullDate]
    /\ ipGroup' = [ipGroup EXCEPT ![p] = NULL]
    /\ ipResult' = [ipResult EXCEPT ![p] = NULL]
    /\ group' = [group EXCEPT ![p] = NULL]
    /\ accessInfo' = [accessInfo EXCEPT ![p] = NULL]
    /\ permNow' = [permNow EXCEPT ![p] = NullDate]
    /\ rfNow' = [rfNow EXCEPT ![p] = NullDate]
    /\ currentAttempt' = [currentAttempt EXCEPT ![p] = NULL]
    /\ caught' = [caught EXCEPT ![p] = {}]
    /\ result' = [result EXCEPT ![p] = NoResult]
    /\ UNCHANGED <<now, tables, faults>>

Finish(p, res) ==
    /\ pc' = [pc EXCEPT ![p] = "done"]
    /\ result' = [result EXCEPT ![p] = res]

LockedResult(a) ==
    [success |-> FALSE, message |-> "locked", lockExpiry |-> a.lockExpiry,
     remainingAttempts |-> 0, isLocked |-> TRUE]

\* variant: the lock is still in force at the instant of its expiry (<= for <)
LockActive_Inclusive(a, t) == t <= a.lockExpiry

\* the lock is in force at instant t: now < lockExpiry
\* variant: the lock check lets every invocation through
LockActive_Never(a, t) == FALSE

LockActive(a, t) == t < a.lockExpiry

\* dynamoDB.get of the attempt item and the lock check
GetAttempt(p) ==
    /\ pc[p] = "getAttempt"
    /\ LET a == accessAttempts[Key(p)] IN
          /\ attempt' = [attempt EXCEPT ![p] = a]
          /\ IF a # NULL /\ a.isLocked
             THEN /\ lockNow' = [lockNow EXCEPT ![p] = now]
                  /\ IF LockActive(a, now)
                     THEN Finish(p, LockedResult(a))
                     ELSE /\ pc' = [pc EXCEPT ![p] = "lockReset"]
                          /\ UNCHANGED result
             ELSE /\ pc' = [pc EXCEPT ![p] = "ipGetGroup"]
                  /\ UNCHANGED <<lockNow, result>>
    /\ UNCHANGED <<now, tables, faults, args, ipGroup, ipResult, group, accessInfo,
                   permNow, rfNow, currentAttempt, caught>>

\* variant: the delete addresses another key and removes nothing
resetAttempts_WrongKey(p) == accessAttempts' = accessAttempts

\* resetAttempts: dynamoDB.delete of the attempt item
resetAttempts(p) ==
    accessAttempts' = [accessAttempts EXCEPT ![Key(p)] = NULL]

\* the lock has lapsed: await resetAttempts(groupId, ipAddress)
LockReset(p) ==
    /\ pc[p] = "lockReset"
    /\ resetAttempts(p)
    /\ pc' = [pc EXCEPT ![p] = "ipGetGroup"]
    /\ UNCHANGED <<now, fileGroups, accessPermissions, ipRestrictions, accessLogs,
                   faults, locals>>

\* checkIpRestriction, first read: dynamoDB.get of the file group
IpGetGroup(p) ==
    /\ pc[p] = "ipGetGroup"
    /\ LET g == fileGroups[args[p].groupId] IN
          /\ ipGroup' = [ipGroup EXCEPT ![p] = g]
          /\ pc' = [pc EXCEPT ![p] = IF g = NULL THEN "getGroup" ELSE "ipGetRestriction"]
    /\ UNCHANGED <<now, tables, faults, args, attempt, lockNow, ipResult, group,
                   accessInfo, permNow, rfNow, currentAttempt, caught, result>>

\* variant: the denial reports what is left of the pair's attempts
IpDeniedResult_Consumed ==
    [success |-> FALSE, message |-> "ip_not_allowed",
     remainingAttempts |-> MAX_LOGIN_ATTEMPTS - 1]

IpDeniedResult ==
    [success |-> FALSE, message |-> "ip_not_allowed",
     remainingAttempts |-> MAX_LOGIN_ATTEMPTS]

\* checkIpRestriction, second read: dynamoDB.get of the restriction item,
\* the rule matching, and the test of its answer in verifyFileAccess
IpGetRestriction(p) ==
    /\ pc[p] = "ipGetRestriction"
    /\ ipResult' = [ipResult EXCEPT ![p] = ipRestrictions]
    /\ IF IpAllowed(ipRestrictions, args[p].ipAddress)
       THEN pc' = [pc EXCEPT ![p] = "getGroup"] /\ UNCHANGED result
       ELSE Finish(p, IpDeniedResult)
    /\ caught' = IF EvaluationThrows(ipRestrictions, args[p].ipAddress)
                 THEN [caught EXCEPT ![p] = @ \cup {"checkIpRestriction"}]
                 ELSE caught
    /\ UNCHANGED <<now, tables, faults, args, attempt, lockNow, ipGroup, group,
                   accessInfo, permNow, rfNow, currentAttempt>>

NotFoundResult ==
    [success |-> FALSE, message |-> "resource_not_found",
     remainingAttempts |-> MAX_LOGIN_ATTEMPTS]

\* variant: the summary carries the instant of the answer for the expiry
AllowResult_NoExpiry(message, g) ==
    [success |-> TRUE, message |-> message,
     groupInfo |-> [groupId |-> g.groupId, expirationDate |-> now]]

AllowResult(message, g) ==
    [success |-> TRUE, message |-> message,
     groupInfo |-> [groupId |-> g.groupId, expirationDate |-> g.expirationDate]]

\* dynamoDB.get of the file group, the not-found and the protection test
GetGroup(p) ==
    /\ pc[p] = "getGroup"
    /\ LET g == fileGroups[args[p].groupId] IN
          /\ group' = [group EXCEPT ![p] = g]
          /\ IF g = NULL THEN Finish(p, NotFoundResult)
             ELSE IF ~g.isPasswordProtected THEN Finish(p, AllowResult("not_protected", g))
             ELSE pc' = [pc EXCEPT ![p] = "getPermission"] /\ UNCHANGED result
    /\ UNCHANGED <<now, tables, faults, args, attempt, lockNow, ipGroup, ipResult,
                   accessInfo, permNow, rfNow, currentAttempt, caught>>

PermissionNotFoundResult ==
    [success |-> FALSE, message |-> "permission_not_found",
     remainingAttempts |-> MAX_LOGIN_ATTEMPTS]

ExpiredResult ==
    [success |-> FALSE, message |-> "expired",
     remainingAttempts |-> MAX_LOGIN_ATTEMPTS]

PasswordRequiredResult(a) ==
    [success |-> FALSE, message |-> "password_required",
     remainingAttempts |-> IF a # NULL THEN MAX_LOGIN_ATTEMPTS - a.attemptCount
                           ELSE MAX_LOGIN_ATTEMPTS]

\* variant: the comparison is turned round
IsExpired_Reversed(t, expirationDate) == t < expirationDate

\* variant: the instant of expiry itself counts as expired (>= for >)
IsExpired_Inclusive(t, expirationDate) == t >= expirationDate

\* now > expirationDate
IsExpired(t, expirationDate) == t > expirationDate

\* the comparison of the supplied password with the stored credential:
\* the salted branch, else the base64 branch, else no match
PasswordMatches(info, password) ==
    IF info.passwordHash # NULL /\ info.passwordSalt # NullSalt
    THEN verifyPassword(password, info.passwordHash, info.passwordSalt)
    ELSE IF info.passwordHash # NULL
    THEN Base64(password) = info.passwordHash
    ELSE FALSE

IsLegacy(info) == info.passwordHash # NULL /\ info.passwordSalt = NullSalt

\* dynamoDB.get of the permission item, the expiry test, the test for a
\* missing password and the password comparison
GetPermission(p) ==
    /\ pc[p] = "getPermission"
    /\ LET info == accessPermissions IN
          /\ accessInfo' = [accessInfo EXCEPT ![p] = info]
          /\ IF info = NULL
             THEN /\ Finish(p, PermissionNotFoundResult)
                  /\ UNCHANGED <<permNow, rfNow>>
             ELSE /\ permNow' = [permNow EXCEPT ![p] = now]
                  /\ IF IsExpired(now, info.expirationDate)
                     THEN Finish(p, ExpiredResult) /\ UNCHANGED rfNow
                     ELSE IF args[p].password = ""
                     THEN Finish(p, PasswordRequiredResult(attempt[p])) /\ UNCHANGED rfNow
                     ELSE IF PasswordMatches(info, args[p].password)
                     THEN /\ pc' = [pc EXCEPT ![p] = "successReset"]
                          /\ UNCHANGED <<result, rfNow>>
                     ELSE \* recordFailedAttempt starts: const now = new Date()
                          /\ pc' = [pc EXCEPT ![p] = "rfGet"]
                          /\ rfNow' = [rfNow EXCEPT ![p] = now]
                          /\ UNCHANGED result
    /\ UNCHANGED <<now, tables, faults, args, attempt, lockNow, ipGroup, ipResult, group,
                   currentAttempt, caught>>

\* where verifyFileAccess goes once resetAttempts has returned: the salted
\* branch returns, the base64 branch goes on to rewrite the credential
AfterSuccessReset(p) ==
    IF IsLegacy(accessInfo[p])
    THEN pc' = [pc EXCEPT ![p] = "rewrite"] /\ UNCHANGED result
    ELSE Finish(p, AllowResult("granted", group[p]))

\* the password matched: await resetAttempts(groupId, ipAddress)
SuccessReset(p) ==
    /\ pc[p] = "successReset"
    /\ resetAttempts(p)
    /\ AfterSuccessReset(p)
    /\ UNCHANGED <<now, fileGroups, accessPermissions, ipRestrictions, accessLogs,
                   faults, args, attempt, lockNow, ipGroup, ipResult, group, accessInfo, permNow,
                   rfNow, currentAttempt, caught>>

\* variant: the update sets the new hash and leaves the salt out
Rewrite_HashOnly(p) ==
    /\ pc[p] = "rewrite"
    /\ \E salt \in Salts :
          accessPermissions' =
              [accessPermissions EXCEPT
                  !.passwordHash = hashPassword(args[p].password, salt).hash]
    /\ Finish(p, AllowResult("granted", group[p]))
    /\ UNCHANGED <<now, fileGroups, ipRestrictions, accessAttempts, accessLogs,
                   faults, args, attempt, lockNow, ipGroup, ipResult, group, accessInfo, permNow,
                   rfNow, currentAttempt, caught>>

\* the base64 branch: hashPassword with a fresh salt and dynamoDB.update of
\* the permission item
Rewrite(p) ==
    /\ pc[p] = "rewrite"
    /\ \E salt \in Salts :
          accessPermissions' =
              [accessPermissions EXCEPT
                  !.passwordHash = hashPassword(args[p].password, salt).hash,
                  !.passwordSalt = hashPassword(args[p].password, salt).salt]
    /\ Finish(p, AllowResult("granted", group[p]))
    /\ UNCHANGED <<now, fileGroups, ipRestrictions, accessAttempts, accessLogs,
                   faults, args, attempt, lockNow, ipGroup, ipResult, group, accessInfo, permNow,
                   rfNow, currentAttempt, caught>>

\* ------------------------------------------------- recordFailedAttempt
\* the item recordFailedAttempt builds from what it read, at instant t:
\* load or create, count up, stamp, and lock at the threshold.  The key
\* attributes and firstAttempt are written once and never read, and are
\* left out of the item
NewAttempt(t) ==
    [attemptCount |-> 0, lastAttempt |-> t,
     isLocked |-> FALSE, lockExpiry |-> NullDate]

\* variant: the threshold test is off by one (> for >=)
ShouldLock_OffByOne(a) == a.attemptCount > MAX_LOGIN_ATTEMPTS /\ ~a.isLocked

\* variant: a locked item is locked again
ShouldLock_Relock(a) == a.attemptCount >= MAX_LOGIN_ATTEMPTS

ShouldLock(a) == a.attemptCount >= MAX_LOGIN_ATTEMPTS /\ ~a.isLocked

\* variant: the expiry is stamped, the flag is not raised
LockedUntil_NoFlag(a, t) == [a EXCEPT !.lockExpiry = t + LOCKOUT_DURATION]

LockedUntil(a, t) == [a EXCEPT !.isLocked = TRUE, !.lockExpiry = t + LOCKOUT_DURATION]

Incremented(item, t) ==
    LET loaded == IF item = NULL THEN NewAttempt(t) ELSE item
        counted == [loaded EXCEPT !.attemptCount = @ + 1, !.lastAttempt = t]
    IN  IF ShouldLock(counted) THEN LockedUntil(counted, t) ELSE counted

\* dynamoDB.get of the attempt item and the update of the copy in memory
RfGet(p) ==
    /\ pc[p] = "rfGet"
    /\ accessAttempts[Key(p)] # NULL => accessAttempts[Key(p)].attemptCount < MaxCount
    /\ currentAttempt' = [currentAttempt EXCEPT ![p] =
                             Incremented(accessAttempts[Key(p)], rfNow[p])]
    /\ pc' = [pc EXCEPT ![p] = "rfPut"]
    /\ UNCHANGED <<now, tables, faults, args, attempt, lockNow, ipGroup, ipResult, group,
                   accessInfo, permNow, rfNow, caught, result>>

\* variant: the remaining attempts are computed from the count before the
\* failure
InvalidPasswordResult_Stale(failedAttempt) ==
    [success |-> FALSE, message |-> "invalid_password",
     remainingAttempts |-> MAX_LOGIN_ATTEMPTS - (failedAttempt.attemptCount - 1),
     isLocked |-> failedAttempt.isLocked, lockExpiry |-> failedAttempt.lockExpiry]

InvalidPasswordResult(failedAttempt) ==
    [success |-> FALSE, message |-> "invalid_password",
     remainingAttempts |-> MAX_LOGIN_ATTEMPTS - failedAttempt.attemptCount,
     isLocked |-> failedAttempt.isLocked, lockExpiry |-> failedAttempt.lockExpiry]

\* dynamoDB.put of the updated item, and the return of verifyFileAccess
RfPut(p) ==
    /\ pc[p] = "rfPut"
    /\ accessAttempts' = [accessAttempts EXCEPT ![Key(p)] = currentAttempt[p]]
    /\ Finish(p, InvalidPasswordResult(currentAttempt[p]))
    /\ UNCHANGED <<now, fileGroups, accessPermissions, ipRestrictions, accessLogs,
                   faults, args, attempt, lockNow, ipGroup, ipResult, group, accessInfo,
                   permNow, rfNow, currentAttempt, caught>>

\* ------------------------------------------------------- storage failures
\* a storage call of the invocation rejects
CanFail == faults < MaxFaults

\* a get of verifyFileAccess or a get or put of recordFailedAttempt rejects:
\* the catch blocks log and rethrow, the invocation ends with the error
StorageThrows(p) ==
    /\ pc[p] \in {"getAttempt", "getGroup", "getPermission", "rfGet", "rfPut"}
    /\ CanFail
    /\ faults' = faults + 1
    /\ pc' = [pc EXCEPT ![p] = "error"]
    /\ UNCHANGED <<now, tables, locals>>

\* variant: resetAttempts rethrows, the invocation ends with the error
ResetFails_Throws(p) ==
    /\ pc[p] \in {"lockReset", "successReset"}
    /\ CanFail
    /\ faults' = faults + 1
    /\ pc' = [pc EXCEPT ![p] = "error"]
    /\ UNCHANGED <<now, tables, locals>>

\* the delete of resetAttempts rejects: its catch block logs, and
\* verifyFileAccess goes on as after a delete
ResetFails(p) ==
    /\ pc[p] \in {"lockReset", "successReset"}
    /\ CanFail
    /\ faults' = faults + 1
    /\ caught' = [caught EXCEPT ![p] = @ \cup {"resetAttempts"}]
    /\ IF pc[p] = "lockReset"
       THEN pc' = [pc EXCEPT ![p] = "ipGetGroup"] /\ UNCHANGED result
       ELSE AfterSuccessReset(p)
    /\ UNCHANGED <<now, tables, args, attempt, lockNow, ipGroup, ipResult, group, accessInfo,
                   permNow, rfNow, currentAttempt>>

\* variant: the catch block of checkIpRestriction answers not allowed
IpCheckFails_Denies(p) ==
    /\ pc[p] \in {"ipGetGroup", "ipGetRestriction"}
    /\ CanFail
    /\ faults' = faults + 1
    /\ caught' = [caught EXCEPT ![p] = @ \cup {"checkIpRestriction"}]
    /\ Finish(p, IpDeniedResult)
    /\ UNCHANGED <<now, tables, args, attempt, lockNow, ipGroup, ipResult, group, accessInfo,
                   permNow, rfNow, currentAttempt>>

\* a get of checkIpRestriction rejects: its catch block logs and answers
\* allowed
IpCheckFails(p) ==
    /\ pc[p] \in {"ipGetGroup", "ipGetRestriction"}
    /\ CanFail
    /\ faults' = faults + 1
    /\ caught' = [caught EXCEPT ![p] = @ \cup {"checkIpRestriction"}]
    /\ pc' = [pc EXCEPT ![p] = "getGroup"]
    /\ UNCHANGED <<now, tables, args, attempt, lockNow, ipGroup, ipResult, group, accessInfo,
                   permNow, rfNow, currentAttempt, result>>

\* variant: the rejected update of the credential ends the invocation with
\* the error
RewriteFails_Throws(p) ==
    /\ pc[p] = "rewrite"
    /\ CanFail
    /\ faults' = faults + 1
    /\ pc' = [pc EXCEPT ![p] = "error"]
    /\ UNCHANGED <<now, tables, locals>>

\* the update of the credential rejects: the catch block logs, and the
\* invocation returns the success
RewriteFails(p) ==
    /\ pc[p] = "rewrite"
    /\ CanFail
    /\ faults' = faults + 1
    /\ caught' = [caught EXCEPT ![p] = @ \cup {"rewrite"}]
    /\ Finish(p, AllowResult("granted", group[p]))
    /\ UNCHANGED <<now, tables, args, attempt, lockNow, ipGroup, ipResult, group, accessInfo,
                   permNow, rfNow, currentAttempt>>

\* ------------------------------------------------ updateIpRestrictions
\* dynamoDB.put of the item built from the argument: enabled and allowedIps
\* as they come (a missing enabled is stored as false, a missing list as
\* the empty list).  updatedAt is written and never read, and is left out
updateIpRestrictions(enabled, allowedIps) ==
    /\ ipRestrictions' = RestrictionItem(enabled, allowedIps)
    /\ UNCHANGED <<now, fileGroups, accessPermissions, accessAttempts, accessLogs,
                   faults, pc, locals>>

\* ------------------------------------- the owner's handlers (cleanup.js)
\* expirationDate.setDate(now.getDate() + expirationDays): a day in minutes
DAY == 1440

\* expirationDays of the request (7 when it is missing)
ExpirationDays == {1, 7}
UserIds == {OwnerId, "user2"}

OwnerResponse(statusCode) == [statusCode |-> statusCode]

\* handleCreateFileGroup up to its first await: the expiry and
\* createPasswordProtection(shareSettings.password), with the salt
\* hashPassword draws.  The client names a share it has not created yet
CreateBegin(p, groupId, password, expirationDays, salt) ==
    /\ ~InFlight(p)
    /\ fileGroups[groupId] = NULL
    /\ pc' = [pc EXCEPT ![p] = "createPutGroup"]
    /\ args' = [args EXCEPT ![p] =
                   [handler |-> "create", groupId |-> groupId, userId |-> OwnerId,
                    password |-> password,
                    expirationDate |-> now + expirationDays * DAY,
                    passwordProtection |-> createPasswordProtection(password, salt)]]
    /\ group' = [group EXCEPT ![p] = NULL]
    /\ result' = [result EXCEPT ![p] = NoResult]
    /\ UNCHANGED <<now, tables, faults, attempt, lockNow, ipGroup, ipResult, accessInfo,
                   permNow, rfNow, currentAttempt, caught>>

\* dynamoDB.put of the file group item
CreatePutGroup(p) ==
    /\ pc[p] = "createPutGroup"
    /\ fileGroups' = [fileGroups EXCEPT ![args[p].groupId] =
                          GroupItem(args[p].passwordProtection.isPasswordProtected,
                                    args[p].expirationDate)]
    /\ pc' = [pc EXCEPT ![p] = "createPutPermission"]
    /\ UNCHANGED <<now, accessPermissions, ipRestrictions, accessAttempts, accessLogs,
                   faults, locals>>

\* the puts of the file items (a table of its own), then dynamoDB.put of the
\* permission item, and the response
CreatePutPermission(p) ==
    /\ pc[p] = "createPutPermission"
    /\ accessPermissions' = PermissionItem(args[p].passwordProtection.passwordHash,
                                           args[p].passwordProtection.passwordSalt,
                                           args[p].expirationDate)
    /\ Finish(p, OwnerResponse(200))
    /\ UNCHANGED <<now, fileGroups, ipRestrictions, accessAttempts, accessLogs, faults,
                   args, attempt, lockNow, ipGroup, ipResult, group, accessInfo, permNow,
                   rfNow, currentAttempt, caught>>

\* handleUpdateExpirationDate up to its first await
UpdateBegin(p, groupId, userId, expirationDays) ==
    /\ ~InFlight(p)
    /\ pc' = [pc EXCEPT ![p] = "updateGetGroup"]
    /\ args' = [args EXCEPT ![p] =
                   [handler |-> "update", groupId |-> groupId, userId |-> userId,
                    expirationDays |-> expirationDays, expirationDate |-> NullDate]]
    /\ group' = [group EXCEPT ![p] = NULL]
    /\ result' = [result EXCEPT ![p] = NoResult]
    /\ UNCHANGED <<now, tables, faults, attempt, lockNow, ipGroup, ipResult, accessInfo,
                   permNow, rfNow, currentAttempt, caught>>

\* dynamoDB.get of the file group, the ownership test and the new expiry
UpdateGetGroup(p) ==
    /\ pc[p] = "updateGetGroup"
    /\ LET g == fileGroups[args[p].groupId] IN
          /\ group' = [group EXCEPT ![p] = g]
          /\ IF g = NULL \/ g.userId # args[p].userId
             THEN Finish(p, OwnerResponse(404)) /\ UNCHANGED args
             ELSE /\ pc' = [pc EXCEPT ![p] = "updateGroup"]
                  /\ args' = [args EXCEPT ![p].expirationDate =
                                                now + args[p].expirationDays * DAY]
                  /\ UNCHANGED result
    /\ UNCHANGED <<now, tables, faults, attempt, lockNow, ipGroup, ipResult, accessInfo,
                   permNow, rfNow, currentAttempt, caught>>

\* dynamoDB.update of the expirationDate of the file group
UpdateGroup(p) ==
    /\ pc[p] = "updateGroup"
    /\ fileGroups' = [fileGroups EXCEPT ![args[p].groupId].expirationDate =
                                            args[p].expirationDate]
    /\ pc' = [pc EXCEPT ![p] = "updatePermission"]
    /\ UNCHANGED <<now, accessPermissions, ipRestrictions, accessAttempts, accessLogs,
                   faults, locals>>

\* dynamoDB.update of the expirationDate of the permission item (an update
\* of a missing item creates it, without credential), and the response
UpdatePermission(p) ==
    /\ pc[p] = "updatePermission"
    /\ accessPermissions' =
          IF accessPermissions = NULL
          THEN PermissionItem(NULL, NullSalt, args[p].expirationDate)
          ELSE [accessPermissions EXCEPT !.expirationDate = args[p].expirationDate]
    /\ Finish(p, OwnerResponse(200))
    /\ UNCHANGED <<now, fileGroups, ipRestrictions, accessAttempts, accessLogs, faults,
                   args, attempt, lockNow, ipGroup, ipResult, group, accessInfo, permNow,
                   rfNow, currentAttempt, caught>>

\* a storage call of the owner's handler rejects: the catch block answers
\* with status 500
OwnerFails(p) ==
    /\ pc[p] \in {"createPutGroup", "createPutPermission", "updateGetGroup",
                   "updateGroup", "updatePermission"}
    /\ CanFail
    /\ faults' = faults + 1
    /\ Finish(p, OwnerResponse(500))
    /\ UNCHANGED <<now, tables, args, attempt, lockNow, ipGroup, ipResult, group,
                   accessInfo, permNow, rfNow, currentAttempt, caught>>

\* ------------------------------------------------------- Audit Logger
\* Math.random().toString(36).substring(2, 15)
RandomSuffixes == {"r1"}

\* the metadata a caller of recordAccessLog passes
EmptyMetadata == [k \in {} |-> NULL]
LogMetadata ==
    {EmptyMetadata, [success |-> TRUE], [success |-> FALSE],
     [success |-> FALSE, password |-> "wrong"],
     [success |-> TRUE, logId |-> <<"g2", 0, "r0">>, groupId |-> "g2",
      action |-> "download"]}

\* the item recordAccessLog builds: the fields of the call, then the keys
\* of metadata spread over them
LogEntry(groupId, userId, ipAddress, action, metadata, t, rnd) ==
    metadata @@ [logId |-> <<groupId, t, rnd>>, groupId |-> groupId, timestamp |-> t,
                 ipAddress |-> ipAddress, userId |-> userId, action |-> action]

\* dynamoDB.put on the table keyed by logId: an item with the same logId is
\* replaced
PutLog(logs, entry) == {e \in logs : e.logId # entry.logId} \cup {entry}

\* recordAccessLog(groupId, null, null, ipAddress, action, metadata):
\* dynamoDB.put of the item.  It is exported; no handler and no function of
\* accessControl.js calls it
RecordAccessLog ==
    /\ Cardinality(accessLogs) < MaxLogs
    /\ \E groupId \in GroupIds, ipAddress \in IPs, metadata \in LogMetadata,
          rnd \in RandomSuffixes :
          accessLogs' = PutLog(accessLogs,
              LogEntry(groupId, "anonymous", ipAddress, "verify", metadata, now, rnd))
    /\ UNCHANGED <<now, fileGroups, accessPermissions, ipRestrictions, accessAttempts,
                   faults, pc, locals>>

\* ------------------------------------------------------ specifications
Step(p) ==
    \/ GetAttempt(p)
    \/ LockReset(p)
    \/ IpGetGroup(p)
    \/ IpGetRestriction(p)
    \/ GetGroup(p)
    \/ GetPermission(p)
    \/ SuccessReset(p)
    \/ Rewrite(p)
    \/ RfGet(p)
    \/ RfPut(p)

Fails(p) ==
    \/ StorageThrows(p)
    \/ ResetFails(p)
    \/ IpCheckFails(p)
    \/ RewriteFails(p)

\* One requester after the other: a request is sent when the previous one
\* has been answered.  Any password, any address, and storage calls may fail
Client == "p1"

Start(p) ==
    \E groupId \in GroupIds, password \in Passwords, ipAddress \in IPs :
        Begin(p, groupId, password, ipAddress)

Next ==
    \/ Tick
    \/ Start(Client)
    \/ Step(Client)
    \/ Fails(Client)

Spec == Init /\ [][Next]_vars

\* a share protected by a salted credential, without IP restriction
InitSalted ==
    /\ Init
    /\ fileGroups["g1"] # NULL
    /\ fileGroups["g1"].isPasswordProtected
    /\ accessPermissions # NULL
    /\ ~IsLegacy(accessPermissions)
    /\ ipRestrictions = NULL

\* the steps of an invocation on a salted credential: the base64 branch and
\* its rewrite are never entered
StepSalted(p) ==
    \/ GetAttempt(p)
    \/ LockReset(p)
    \/ IpGetGroup(p)
    \/ IpGetRestriction(p)
    \/ GetGroup(p)
    \/ GetPermission(p)
    \/ SuccessReset(p)
    \/ RfGet(p)
    \/ RfPut(p)

\* Invocations run concurrently and interleave at their storage calls: the
\* requesters behind one address try passwords at the same time
StartRace(p) ==
    \E groupId \in GroupIds, password \in Passwords \ {""} :
        Begin(p, groupId, password, IpA)

NextRace ==
    \/ Tick
    \/ \E p \in Procs : StartRace(p)
    \/ \E p \in Procs : StepSalted(p)

SpecRace == InitSalted /\ [][NextRace]_vars

\* The owner updates the IP restriction of the share while requesters who
\* know the password, or send none, come from any address; the reads of the
\* IP check may fail
StartIp(p) ==
    \E groupId \in GroupIds, password \in {"", "Secret123!"}, ipAddress \in Requesters :
        Begin(p, groupId, password, ipAddress)

StepIp(p) ==
    \/ GetAttempt(p)
    \/ IpGetGroup(p)
    \/ IpGetRestriction(p)
    \/ GetGroup(p)
    \/ GetPermission(p)
    \/ SuccessReset(p)

\* the share is protected by a salted credential and the owner has stored
\* any of the rule lists, enabled or not, or nothing
StoredRestrictions ==
    {NULL} \cup {RestrictionItem(enabled, allowedIps) :
                    enabled \in BOOLEAN, allowedIps \in RuleLists}

InitIp ==
    /\ InitWith(StoredRestrictions)
    /\ fileGroups["g1"] # NULL
    /\ fileGroups["g1"].isPasswordProtected
    /\ accessPermissions # NULL
    /\ ~IsLegacy(accessPermissions)

UpdateLists ==
    {<<>>, <<CidrRule(<<192, 168, 1, 0>>, 24)>>, <<ExactRule(IpA), ExactRule(IpA)>>,
     <<CidrRule(IpA, NotANumber)>>}

UpdateIp ==
    \E enabled \in BOOLEAN, allowedIps \in UpdateLists :
        updateIpRestrictions(enabled, allowedIps)

NextIp ==
    \/ UpdateIp
    \/ StartIp(Client)
    \/ StepIp(Client)
    \/ IpCheckFails(Client)

SpecIp == InitIp /\ [][NextIp]_vars

\* The owner creates the share, with any password or none, and moves its
\* expiry; the storage calls of the handlers may fail
Owner == "p2"

InitOwner ==
    /\ Init
    /\ fileGroups["g1"] = NULL

StartOwner(p) ==
    \/ \E groupId \in GroupIds, password \in Passwords, expirationDays \in ExpirationDays,
          salt \in Salts :
          CreateBegin(p, groupId, password, expirationDays, salt)
    \/ \E groupId \in GroupIds, userId \in UserIds, expirationDays \in ExpirationDays :
          UpdateBegin(p, groupId, userId, expirationDays)

StepOwner(p) ==
    \/ CreatePutGroup(p)
    \/ CreatePutPermission(p)
    \/ UpdateGetGroup(p)
    \/ UpdateGroup(p)
    \/ UpdatePermission(p)

NextOwner ==
    \/ StartOwner(Owner)
    \/ StepOwner(Owner)
    \/ OwnerFails(Owner)

SpecOwner == InitOwner /\ [][NextOwner]_vars

\* One requester after the other, next to a caller of the exported
\* recordAccessLog
NextAudit ==
    \/ Tick
    \/ Start(Client)
    \/ StepSalted(Client)
    \/ RecordAccessLog

SpecAudit == InitSalted /\ [][NextAudit]_vars

\* ====================================================================
\* Properties
\* ====================================================================
Done(p) == pc[p] = "done"

Message(p) == result[p].message

\* the attempt item of the pair of invocation p, as stored now
Stored(p) == accessAttempts[Key(p)]

\* the invocation found the pair locked, and at which side of the expiry
FoundLocked(p) == attempt[p] # NULL /\ attempt[p].isLocked
FoundActiveLock(p) == FoundLocked(p) /\ lockNow[p] < attempt[p].lockExpiry
FoundLapsedLock(p) == FoundLocked(p) /\ lockNow[p] >= attempt[p].lockExpiry

\* no catch block of the invocation swallowed a storage failure
NoneCaught(p) == caught[p] = {}

\* C1: requests one after the other; the wrong-password failure that brings
\* the count of the pair to five leaves the stored item locked, with a
\* lockExpiry exactly LOCKOUT_DURATION after the instant of that failure,
\* and returns that lock; every invocation that then reads the item before
\* the lockExpiry is denied as locked, with the right password as with a
\* wrong one
C1_LockAfterFiveFailures ==
    \A p \in Procs :
        /\ (Done(p) /\ Message(p) = "invalid_password"
                /\ currentAttempt[p].attemptCount = MAX_LOGIN_ATTEMPTS) =>
              /\ Stored(p) = currentAttempt[p]
              /\ Stored(p).isLocked
              /\ Stored(p).lockExpiry = rfNow[p] + LOCKOUT_DURATION
              /\ Stored(p).lockExpiry = Stored(p).lastAttempt + LOCKOUT_DURATION
              /\ result[p].isLocked
              /\ result[p].lockExpiry = Stored(p).lockExpiry
        /\ (pc[p] \notin {"idle", "getAttempt"} /\ attempt[p] # NULL
                /\ attempt[p].attemptCount >= MAX_LOGIN_ATTEMPTS
                /\ lockNow[p] < attempt[p].lockExpiry) =>
              /\ Done(p)
              /\ ~result[p].success
              /\ Message(p) = "locked"

\* the right password is refused while the lock of five failures is in force
C1_Witness ==
    \E p \in Procs :
        /\ Done(p)
        /\ Message(p) = "locked"
        /\ args[p].password = "Secret123!"
        /\ attempt[p].attemptCount = MAX_LOGIN_ATTEMPTS
        /\ attempt[p].lockExpiry = attempt[p].lastAttempt + LOCKOUT_DURATION

\* the IP check of the invocation let the requester pass: no rule denied
\* the address, or checkIpRestriction caught an error and answered allowed
IpCheckPassed(p) ==
    \/ "checkIpRestriction" \in caught[p]
    \/ ipGroup[p] = NULL
    \/ ipRestrictions = NULL
    \/ ~ipRestrictions.enabled
    \/ Len(ipRestrictions.allowedIps) = 0
    \/ \E i \in 1..Len(ipRestrictions.allowedIps) :
          RuleMatches(ipRestrictions.allowedIps[i], args[p].ipAddress)

\* the stored credential is the salted hash of the password, or with no
\* salt stored its base64 encoding
CredentialOf(info, password) ==
    /\ info.passwordHash # NULL
    /\ IF info.passwordSalt # NullSalt
       THEN info.passwordHash = Pbkdf2(password, info.passwordSalt)
       ELSE info.passwordHash = Base64(password)

\* C2: an invocation on a password-protected share returns success only
\* if it found no lock in force, the IP check let the requester pass, the
\* permission item existed and had not expired, and the password was not
\* empty and matched the stored credential; an invocation that ended with
\* a storage error has returned nothing
C2_NoAccessWithoutPassword ==
    \A p \in Procs :
        /\ (Done(p) /\ result[p].success /\ group[p].isPasswordProtected) =>
              /\ ~FoundActiveLock(p)
              /\ IpCheckPassed(p)
              /\ accessInfo[p] # NULL
              /\ permNow[p] <= accessInfo[p].expirationDate
              /\ args[p].password # ""
              /\ CredentialOf(accessInfo[p], args[p].password)
              /\ args[p].password = "Secret123!"
        /\ pc[p] = "error" => result[p] = NoResult

\* access to a protected share was granted, at the instant of its expiry
C2_Witness ==
    \E p \in Procs :
        /\ Done(p)
        /\ result[p].success
        /\ group[p].isPasswordProtected
        /\ permNow[p] = accessInfo[p].expirationDate

\* C3: requests one after the other, no storage failure; an invocation
\* with the right password that finds the lock lapsed (now at or after
\* lockExpiry) and passes the IP and expiry checks returns success and
\* leaves no attempt item; a wrong-password failure that found no item, or
\* a lapsed lock, stores attemptCount = 1 and isLocked = false
C3_LapsedLockClears ==
    \A p \in Procs :
        /\ (Done(p) /\ FoundLapsedLock(p) /\ args[p].password = "Secret123!"
                /\ Message(p) \notin {"ip_not_allowed", "expired"}) =>
              /\ result[p].success
              /\ NoneCaught(p) => Stored(p) = NULL
        /\ (Done(p) /\ Message(p) = "invalid_password" /\ NoneCaught(p)
                /\ (attempt[p] = NULL \/ FoundLapsedLock(p))) =>
              /\ Stored(p).attemptCount = 1
              /\ ~Stored(p).isLocked
              /\ Stored(p).lockExpiry = NullDate

\* the right password after the lock lapsed: success, and the item is gone
C3_Witness ==
    \E p \in Procs :
        /\ Done(p)
        /\ FoundLapsedLock(p)
        /\ attempt[p].attemptCount = MAX_LOGIN_ATTEMPTS
        /\ result[p].success
        /\ Stored(p) = NULL

\* C4: an invocation is denied at the lock check, with isLocked = true,
\* remainingAttempts = 0 and the stored lockExpiry, without reading the
\* share or the permission item, without entering recordFailedAttempt and
\* leaving the attempt item as it was, if and only if the item it read is
\* locked and the instant of the check is strictly before lockExpiry; at
\* lockExpiry and later it goes on to the next checks
C4_LockCheck ==
    \A p \in Procs :
        pc[p] \notin {"idle", "getAttempt"} =>
            /\ (Done(p) /\ Message(p) = "locked") <=>
                  (attempt[p] # NULL /\ attempt[p].isLocked
                      /\ lockNow[p] < attempt[p].lockExpiry)
            /\ (Done(p) /\ Message(p) = "locked") =>
                  /\ result[p] = [success |-> FALSE, message |-> "locked",
                                  lockExpiry |-> attempt[p].lockExpiry,
                                  remainingAttempts |-> 0, isLocked |-> TRUE]
                  /\ ipGroup[p] = NULL
                  /\ group[p] = NULL
                  /\ accessInfo[p] = NULL
                  /\ currentAttempt[p] = NULL
                  /\ Stored(p) = attempt[p]

\* at the instant of lockExpiry the invocation is not denied as locked
C4_Witness ==
    \E p \in Procs :
        /\ Done(p)
        /\ attempt[p] # NULL
        /\ attempt[p].isLocked
        /\ lockNow[p] = attempt[p].lockExpiry
        /\ Message(p) # "locked"

\* the count of the pair before recordFailedAttempt of invocation p ran
CountBefore(p) ==
    IF attempt[p] = NULL \/ FoundLapsedLock(p) THEN 0 ELSE attempt[p].attemptCount

CountOf(item) == IF item = NULL THEN 0 ELSE item.attemptCount

\* C6: concurrent requests; failures are not undercounted: every put of
\* recordFailedAttempt leaves the stored attemptCount at least one above
\* what was stored before the put, so that k failures with no delete in
\* between raise the count by k
C6_NoUndercount ==
    [][\A p \in Procs :
          (pc[p] = "rfPut" /\ pc'[p] = "done") =>
              accessAttempts'[Key(p)].attemptCount >= CountOf(accessAttempts[Key(p)]) + 1]_vars

\* the outcome an audit record of invocation p has to capture
Captures(e, p) ==
    /\ e.groupId = args[p].groupId
    /\ e.ipAddress = args[p].ipAddress
    /\ e.action = "verify"
    /\ "success" \in DOMAIN e
    /\ e.success = result[p].success

\* C7: when an invocation has returned its ALLOW or DENY, the access-log
\* table holds a record of that outcome
C7_OutcomeAudited ==
    \A p \in Procs : Done(p) => \E e \in accessLogs : Captures(e, p)

\* a rule of the restriction item denies the address of invocation p
DeniedByRule(p) ==
    /\ ipRestrictions # NULL
    /\ ipRestrictions.enabled
    /\ Len(ipRestrictions.allowedIps) > 0
    /\ \A i \in 1..Len(ipRestrictions.allowedIps) :
          ~RuleMatches(ipRestrictions.allowedIps[i], args[p].ipAddress)

\* C8: an invocation whose IP check denies the requester returns the
\* denial with remainingAttempts = 5, whatever the count of the pair, and
\* never enters recordFailedAttempt: the attempt item is the one it read
\* (or none, after the reset of a lapsed lock)
C8_IpDenialFree ==
    \A p \in Procs :
        /\ (pc[p] \notin {"idle", "getAttempt", "lockReset", "ipGetGroup", "ipGetRestriction", "error"}
                /\ ipGroup[p] # NULL /\ "checkIpRestriction" \notin caught[p]
                /\ DeniedByRule(p)) =>
              (Done(p) /\ Message(p) = "ip_not_allowed")
        /\ (Done(p) /\ Message(p) = "ip_not_allowed") =>
              /\ DeniedByRule(p)
              /\ ~result[p].success
              /\ result[p].remainingAttempts = MAX_LOGIN_ATTEMPTS
              /\ currentAttempt[p] = NULL
              /\ Stored(p) \in {attempt[p], NULL}
              /\ Stored(p) = NULL => (attempt[p] = NULL \/ FoundLapsedLock(p))

\* a requester with earlier failures on the pair is denied by the IP check
C8_Witness ==
    \E p \in Procs :
        /\ Done(p)
        /\ Message(p) = "ip_not_allowed"
        /\ attempt[p] # NULL
        /\ attempt[p].attemptCount > 0
        /\ Stored(p) = attempt[p]

\* C9: an invocation that read the permission item of a protected share
\* is denied as expired exactly when the instant of the check is strictly
\* after the item's expirationDate; the denial reports 5 remaining
\* attempts and the invocation never enters recordFailedAttempt, with a
\* wrong password as with any other
C9_ExpiryFree ==
    \A p \in Procs :
        (pc[p] \notin {"idle", "error"} /\ accessInfo[p] # NULL) =>
            /\ (Done(p) /\ Message(p) = "expired") <=>
                  permNow[p] > accessInfo[p].expirationDate
            /\ (Done(p) /\ Message(p) = "expired") =>
                  /\ ~result[p].success
                  /\ result[p].remainingAttempts = MAX_LOGIN_ATTEMPTS
                  /\ currentAttempt[p] = NULL
                  /\ Stored(p) \in {attempt[p], NULL}
                  /\ Stored(p) = NULL => (attempt[p] = NULL \/ FoundLapsedLock(p))

\* a wrong password on an expired share, from a pair that has failed before
C9_Witness ==
    \E p \in Procs :
        /\ Done(p)
        /\ Message(p) = "expired"
        /\ args[p].password = "wrong"
        /\ attempt[p] # NULL
        /\ Stored(p) = attempt[p]

\* C10: an invocation that reads an unprotected share returns success
\* with the groupId and expirationDate of the share, for every password
\* and for none, without reading the permission item and without entering
\* recordFailedAttempt or resetAttempts on the way: the attempt item of
\* the pair is the one the lock check read
C10_UnprotectedAllow ==
    \A p \in Procs :
        (pc[p] \notin {"idle", "error"} /\ group[p] # NULL /\ ~group[p].isPasswordProtected) =>
            /\ Done(p)
            /\ result[p].success
            /\ result[p].groupInfo = [groupId |-> args[p].groupId,
                                      expirationDate |-> fileGroups[args[p].groupId].expirationDate]
            /\ accessInfo[p] = NULL
            /\ permNow[p] = NullDate
            /\ currentAttempt[p] = NULL
            /\ ~FoundLocked(p) => Stored(p) = attempt[p]

\* no password, a pair with two earlier failures: access is granted and the
\* item of the failures is still there
C10_Witness ==
    \E p \in Procs :
        /\ Done(p)
        /\ group[p] # NULL
        /\ ~group[p].isPasswordProtected
        /\ args[p].password = ""
        /\ result[p].success
        /\ Stored(p) # NULL
        /\ Stored(p).attemptCount = 2
\* C11: requests one after the other; an invocation with an empty password
\* on a protected, unexpired share is denied as password_required, never
\* enters recordFailedAttempt, and reports remainingAttempts = 5 - the
\* attemptCount of the item stored for the pair when it returns, 5 when
\* there is none
C11_PasswordRequired ==
    \A p \in Procs :
        /\ (pc[p] \notin {"idle", "error"} /\ accessInfo[p] # NULL
                /\ permNow[p] <= accessInfo[p].expirationDate /\ args[p].password = "") =>
              (Done(p) /\ Message(p) = "password_required")
        /\ (Done(p) /\ Message(p) = "password_required") =>
              /\ ~result[p].success
              /\ currentAttempt[p] = NULL
              /\ result[p].remainingAttempts = MAX_LOGIN_ATTEMPTS - CountOf(Stored(p))
\* the passwords the stored credential accepts
Accepted(info) == {pw \in Passwords \ {""} : PasswordMatches(info, pw)}

\* C12: an invocation with the password whose base64 encoding is the
\* stored hash of a credential without salt returns success and, when the
\* update is not rejected, leaves the permission item with a salt and the
\* salted hash of that password, all else as it was; an invocation that
\* reads the salted item with that password succeeds through the salted
\* comparison; and the stored credential, rewritten or not, accepts the
\* passwords the base64 credential accepted and no other
C12_LegacyRewrite ==
    /\ \A p \in Procs :
          /\ (pc[p] \notin {"idle", "error"} /\ accessInfo[p] # NULL /\ IsLegacy(accessInfo[p])
                  /\ permNow[p] <= accessInfo[p].expirationDate
                  /\ accessInfo[p].passwordHash = Base64(args[p].password)) =>
                /\ pc[p] \in {"successReset", "rewrite", "done"}
                /\ Done(p) =>
                      /\ result[p].success
                      /\ "rewrite" \notin caught[p] =>
                            /\ accessPermissions.passwordSalt \in Salts
                            /\ accessPermissions.passwordHash =
                                  Pbkdf2(args[p].password, accessPermissions.passwordSalt)
                            /\ accessPermissions =
                                  [accessInfo[p] EXCEPT
                                      !.passwordHash = accessPermissions.passwordHash,
                                      !.passwordSalt = accessPermissions.passwordSalt]
          /\ (Done(p) /\ accessInfo[p] # NULL /\ ~IsLegacy(accessInfo[p])
                  /\ permNow[p] <= accessInfo[p].expirationDate
                  /\ args[p].password = "Secret123!") =>
                /\ result[p].success
                /\ verifyPassword(args[p].password, accessInfo[p].passwordHash,
                                  accessInfo[p].passwordSalt)
    /\ (accessPermissions # NULL /\ accessPermissions.passwordHash # NULL) =>
          Accepted(accessPermissions) = {"Secret123!"}

\* the credential was stored in base64, was rewritten by an earlier
\* invocation, and this invocation succeeded on the salted item
C12_Witness ==
    \E p \in Procs :
        /\ Done(p)
        /\ result[p].success
        /\ accessInfo[p] # NULL
        /\ accessInfo[p].passwordSalt = "s2"
        /\ accessInfo[p].passwordHash = Pbkdf2("Secret123!", "s2")
\* the invocation read an unexpired permission item and its password is
\* not empty and matches the stored credential
Matched(p) ==
    /\ accessInfo[p] # NULL
    /\ permNow[p] <= accessInfo[p].expirationDate
    /\ args[p].password # ""
    /\ PasswordMatches(accessInfo[p], args[p].password)

\* C13: once the password of an invocation has matched, the invocation
\* never ends with an error and returns success with the summary of the
\* share, whether the delete of the attempt item or the update of the
\* credential was rejected or not
C13_BestEffort ==
    \A p \in Procs :
        (pc[p] # "idle" /\ Matched(p)) =>
            /\ pc[p] \in {"successReset", "rewrite", "done"}
            /\ Done(p) =>
                  /\ result[p].success
                  /\ result[p].groupInfo = [groupId |-> group[p].groupId,
                                            expirationDate |-> group[p].expirationDate]

\* the delete on success was rejected: access is granted and the item of
\* the earlier failures is still stored
C13_Witness ==
    \E p \in Procs :
        /\ Done(p)
        /\ Matched(p)
        /\ result[p].success
        /\ "resetAttempts" \in caught[p]
        /\ ~FoundLocked(p)
        /\ Stored(p) # NULL

DenialCodes ==
    {"locked", "ip_not_allowed", "resource_not_found", "permission_not_found",
     "expired", "password_required", "invalid_password"}

\* the check of invocation p that its denial stands for
DenialCause(p) ==
    CASE Message(p) = "locked" -> FoundActiveLock(p)
      [] Message(p) = "ip_not_allowed" -> DeniedByRule(p)
      [] Message(p) = "resource_not_found" -> group[p] = NULL
      [] Message(p) = "permission_not_found" -> group[p] # NULL /\ accessInfo[p] = NULL
      [] Message(p) = "expired" ->
            accessInfo[p] # NULL /\ permNow[p] > accessInfo[p].expirationDate
      [] Message(p) = "password_required" ->
            accessInfo[p] # NULL /\ args[p].password = ""
      [] Message(p) = "invalid_password" ->
            accessInfo[p] # NULL /\ args[p].password # "" /\ ~Matched(p)
      [] OTHER -> FALSE

RestrictionRead(p) ==
    /\ pc[p] \notin {"idle", "getAttempt", "lockReset", "ipGetGroup", "ipGetRestriction"}
    /\ ipGroup[p] # NULL
    /\ ~("checkIpRestriction" \in caught[p] /\ ipResult[p] = NULL)

IpDenied(p) == Done(p) /\ Message(p) = "ip_not_allowed"

\* C15: an invocation whose IP check read no restriction item, an item
\* with enabled = false or an item with an empty rule list is not denied by
\* the IP check, whatever its address; an invocation is denied by the IP
\* check only on an item with enabled = true and at least one rule
C15_OpenWithoutRules ==
    \A p \in Procs :
        /\ (RestrictionRead(p)
                /\ (\/ ipResult[p] = NULL
                    \/ ~ipResult[p].enabled
                    \/ Len(ipResult[p].allowedIps) = 0)) =>
              ~IpDenied(p)
        /\ IpDenied(p) =>
              /\ ipResult[p] # NULL
              /\ ipResult[p].enabled
              /\ Len(ipResult[p].allowedIps) > 0

\* a disabled restriction whose only rule does not cover the address: the
\* requester passes the IP check
C15_Witness ==
    \E p \in Procs :
        /\ Done(p)
        /\ RestrictionRead(p)
        /\ ipResult[p] # NULL
        /\ ~ipResult[p].enabled
        /\ ipResult[p].allowedIps = <<CidrRule(<<192, 168, 1, 0>>, 24)>>
        /\ args[p].ipAddress = IpB
        /\ result[p].success

\* C16: an invocation in which a read of the IP check was rejected, or the
\* evaluation of the rules threw, goes on to the checks after the IP check:
\* it is not denied by the IP check and does not end with an error
C16_IpCheckFailsOpen ==
    \A p \in Procs :
        "checkIpRestriction" \in caught[p] =>
            /\ pc[p] \in {"getGroup", "getPermission", "successReset", "done"}
            /\ ~IpDenied(p)
            /\ Done(p) => Message(p) \in {"granted", "password_required"}

\* the only rule stored throws when it is evaluated: a requester from an
\* address no rule covers is granted access
C16_Witness ==
    \E p \in Procs :
        /\ Done(p)
        /\ "checkIpRestriction" \in caught[p]
        /\ ipResult[p] # NULL
        /\ ipResult[p].enabled
        /\ ipResult[p].allowedIps = <<BadRegexRule>>
        /\ args[p].ipAddress = IpB
        /\ result[p].success
\* the first p bits of two unsigned 32-bit values are the same: the values
\* are equal under the mask (-1) << (32 - p) cut to 32 bits
SamePrefix(x, y, p) ==
    IF p <= 16
    THEN x.hi \div Pow2(16 - p) = y.hi \div Pow2(16 - p)
    ELSE x.hi = y.hi /\ x.lo \div Pow2(32 - p) = y.lo \div Pow2(32 - p)

\* the invocation read an enabled restriction whose only rule is a CIDR
\* rule a/p of four numeric octets and a prefix length in 0..32, and came
\* from an address of four numeric octets
OneCidrRule(p) ==
    /\ RestrictionRead(p)
    /\ ipResult[p] # NULL
    /\ ipResult[p].enabled
    /\ Len(ipResult[p].allowedIps) = 1
    /\ ipResult[p].allowedIps[1] \in {CidrRule(<<192, 168, 1, 0>>, bits) : bits \in 0..32}
    /\ Len(args[p].ipAddress) = 4

\* C17: with the CIDR rule a/p as the only rule, a requester passes the IP
\* check exactly when its address and a have the same first p bits, for
\* every prefix length p in 0..32; with p = 0 every address passes
C17_CidrMatch ==
    \A p \in Procs :
        OneCidrRule(p) =>
            LET rule == ipResult[p].allowedIps[1] IN
                ~IpDenied(p) <=>
                    SamePrefix(ip2long(args[p].ipAddress), ip2long(rule.addr), rule.bits)

\* the same for the prefix lengths 1..32
C17_CidrMatchFrom1 ==
    \A p \in Procs :
        (OneCidrRule(p) /\ ipResult[p].allowedIps[1].bits # 0) =>
            LET rule == ipResult[p].allowedIps[1] IN
                ~IpDenied(p) <=>
                    SamePrefix(ip2long(args[p].ipAddress), ip2long(rule.addr), rule.bits)

\* C18: with nothing but malformed rules stored and enabled, every
\* requester is denied by the IP check and the evaluation does not throw;
\* and the placeholder 'unknown' passes no CIDR rule
C18_MalformedNeverMatches ==
    \A p \in Procs :
        (RestrictionRead(p) /\ ipResult[p] # NULL /\ ipResult[p].enabled
            /\ Len(ipResult[p].allowedIps) > 0) =>
            /\ (\A i \in 1..Len(ipResult[p].allowedIps) :
                    ipResult[p].allowedIps[i] \in MalformedRules) =>
                  /\ IpDenied(p)
                  /\ "checkIpRestriction" \notin caught[p]
            /\ (args[p].ipAddress = Unknown
                    /\ \A i \in 1..Len(ipResult[p].allowedIps) :
                          ipResult[p].allowedIps[i].kind = "cidr") =>
                  IpDenied(p)

\* a rule list without duplicate and without malformed entry, of at most
\* 100 rules
Normalized(allowedIps) ==
    /\ \A i, j \in 1..Len(allowedIps) : allowedIps[i] = allowedIps[j] => i = j
    /\ \A i \in 1..Len(allowedIps) : allowedIps[i] \notin MalformedRules
    /\ Len(allowedIps) <= 100

\* C19: every update of the restriction item leaves a normalized rule list
\* stored
C19_NormalizedRules ==
    [][ipRestrictions' # ipRestrictions => Normalized(ipRestrictions'.allowedIps)]_vars
SensitiveKeys ==
    {"password", "passwordHash", "passwordSalt", "token", "credentials", "secret"}

\* C20: no item of the access-log table has a password, passwordHash,
\* passwordSalt, token, credentials or secret attribute, whatever metadata
\* recordAccessLog was called with
C20_NoSecretsLogged ==
    \A e \in accessLogs : DOMAIN e \cap SensitiveKeys = {}
\* the owner's handler has answered a create request with status 200
Created(p) ==
    /\ pc[p] = "done"
    /\ args[p] # NULL
    /\ args[p].handler = "create"
    /\ result[p] = OwnerResponse(200)

C22_LockFieldsAgree ==
    \A k \in Pairs :
        accessAttempts[k] # NULL =>
            /\ accessAttempts[k].isLocked
                   <=> accessAttempts[k].attemptCount >= MAX_LOGIN_ATTEMPTS
            /\ accessAttempts[k].lockExpiry # NullDate <=> accessAttempts[k].isLocked

\* an invocation that passed the lock check before the lock was stored has
\* put its own failure over the locked item
C22_Witness ==
    \E p \in Procs :
        /\ Done(p)
        /\ Message(p) = "invalid_password"
        /\ ~FoundLocked(p)
        /\ Stored(p) # NULL
        /\ Stored(p).attemptCount > MAX_LOGIN_ATTEMPTS
        /\ Stored(p).isLocked
        /\ Stored(p).lockExpiry # NullDate
\* C23: a wrong-password failure of an invocation that found the lock
\* lapsed is counted from 1, whether the delete of the lapsed item went
\* through or was rejected: the stored item has attemptCount = 1 and no
\* lock, and the invocation returns four remaining attempts
C23_LapsedLockRearmed ==
    \A p \in Procs :
        (Done(p) /\ Message(p) = "invalid_password" /\ FoundLapsedLock(p)) =>
            /\ Stored(p).attemptCount = 1
            /\ ~Stored(p).isLocked
            /\ result[p].remainingAttempts = MAX_LOGIN_ATTEMPTS - 1
\* the restriction item the invocation read denies its address
IpFails(p) ==
    /\ ipGroup[p] # NULL
    /\ ipResult[p] # NULL
    /\ ~IpAllowed(ipResult[p], args[p].ipAddress)

C25_ExpiryMirrored ==
    \A g \in GroupIds :
        (pc[Owner] = "done" /\ fileGroups[g] # NULL) =>
            /\ accessPermissions # NULL
            /\ accessPermissions.expirationDate = fileGroups[g].expirationDate
\* C26: concurrent requests; no supplied password is compared with the
\* stored credential while the attempt item of the pair is locked and its
\* lockExpiry is still ahead: an invocation that passed the lock check
\* before the fifth failure was stored gets no comparison after it
C26_NoComparisonWhileLocked ==
    [][\A p \in Procs :
          (pc[p] = "getPermission" /\ pc'[p] \in {"rfGet", "successReset"}) =>
              ~(/\ Stored(p) # NULL
                /\ Stored(p).isLocked
                /\ now < Stored(p).lockExpiry)]_vars

\* C27: concurrent requests; every answer that carries remainingAttempts
\* carries a value from 0 to MAX_LOGIN_ATTEMPTS
C27_RemainingInRange ==
    \A p \in Procs :
        (Done(p) /\ "remainingAttempts" \in DOMAIN result[p]) =>
            result[p].remainingAttempts \in 0..MAX_LOGIN_ATTEMPTS
C29_NoSuccessAfterExpiry ==
    [][\A p \in Procs :
          (pc[p] # "done" /\ pc'[p] = "done" /\ result'[p].success) =>
              IF accessInfo'[p] # NULL
              THEN ~(group'[p].expirationDate < permNow'[p])
              ELSE ~(group'[p].expirationDate < now)]_vars
\* C30: every item a call of recordAccessLog writes has the groupId,
\* ipAddress, userId and action of the call, the timestamp of its clock
\* and the logId made of them, whatever keys its metadata has, and no call
\* removes or replaces an item written before
C30_NoForgedEntry ==
    [][/\ accessLogs \subseteq accessLogs'
       /\ \A e \in accessLogs' \ accessLogs :
             /\ e.groupId \in GroupIds
             /\ e.ipAddress \in IPs
             /\ e.userId = "anonymous"
             /\ e.action = "verify"
             /\ e.timestamp = now
             /\ \E rnd \in RandomSuffixes : e.logId = <<e.groupId, now, rnd>>]_vars

====
